---- MODULE Spec2Model ----
(***************************************************************************)
(* State-machine model of the endless-runner simulation core               *)
(* (src/src/lib/gameEngine.ts: Player, Obstacle, Coin, PowerUp, Particle,  *)
(* GameEngine).                                                            *)
(*                                                                         *)
(* Units.  Lengths are in 1/1000 px, times in ms, the score in 1/1000      *)
(* point, speeds in px/s, the vertical velocity in 1/1000 px/s, Math.random *)
(* draws in 1/1000.  With these units speed * dt and 800 * dt are exact;   *)
(* lerp and velocity * dt are rounded down to 1/1000 px (the source uses   *)
(* IEEE doubles).                                                          *)
(*                                                                         *)
(* Left out: rendering (render, drawTracks, renderHUD, ...), the fps       *)
(* counter, the animationFrame fields, the keys set, and a particle's      *)
(* position and velocity; none of them is read by the simulation.          *)
(***************************************************************************)
EXTENDS Integers, Sequences, FiniteSets, TLC

\* ------------------------------------------------------------------------
\* Bounds of the model (environment, not program constants)
\* ------------------------------------------------------------------------

\* clientWidth / clientHeight of a container that is laid out, in px
CanvasWidth == 400
CanvasHeight == 20
\* Date.now() at page load, in ms; the program only needs it above the
\* largest spawn gate (15000)
Epoch == 100000
\* ms between two animation frames on a steady display
NormalGap == 17
\* ms between two animation frames after a stall (hidden tab)
LongGap == 2500
\* ms between two animation frames after the tab was hidden for longer than
\* the power-up gate
HiddenGap == 16000

\* ------------------------------------------------------------------------
\* Program constants
\* ------------------------------------------------------------------------

DtCap == 16
Gravity == 800
JumpVelocity == 600
SlideDuration == 800
GraceDuration == 2000
LerpRate == 8
SnapDistance == 5
PlayerWidth == 40
PlayerHeight == 60
CoinSize == 20
PowerUpSize == 30
BaseSpeed == 300
InitialLives == 3
InitialInterval == 2000
MinInterval == 800
CoinInterval == 1500
PowerUpInterval == 15000
SpawnY == 100
CoinGapY == 30
ObstacleMargin == 100
PickupMargin == 50
CoinScore == 10
MagnetRange == 150
MagnetRate == 5
ParticleLife == 1000
ShieldDuration == 10000
SwipeThreshold == 30

GameStates == {"menu", "playing", "paused", "gameOver"}
PowerUpTypes == {"magnet", "speed", "shield"}
ObstacleTypes == <<"barrier", "train", "low">>
PowerUpOrder == <<"magnet", "speed", "shield">>

\* ------------------------------------------------------------------------
\* Utility functions
\* ------------------------------------------------------------------------

Min(a, b) == IF a < b THEN a ELSE b
Max(a, b) == IF a > b THEN a ELSE b
Abs(a) == IF a < 0 THEN -a ELSE a

clamp(value, lo, hi) == Max(lo, Min(hi, value))

\* lerp(start, end, factor) with factor = num / 1000
lerp(start, end, num) == start + ((end - start) * num) \div 1000

\* Math.floor(Math.random() * n) for a draw r in 0..999 (thousandths)
FloorDraw(r, n) == (r * n) \div 1000

MapSeq(F(_), s) == [i \in 1..Len(s) |-> F(s[i])]

Repeat(x, n) == [i \in 1..n |-> x]

\* ------------------------------------------------------------------------
\* World geometry fixed by the constructor
\* ------------------------------------------------------------------------

VARIABLE
  canvas     \* the canvas as resizeCanvas sized it: the width and height
             \* handed to the constructor, in px

lanePositions == <<canvas.width * 250, canvas.width * 500, canvas.width * 750>>

groundY == canvas.height * 800

\* lanePositions[lane] for lane in 0..2
LaneX(lane) == lanePositions[lane + 1]

\* ------------------------------------------------------------------------
\* Player
\* ------------------------------------------------------------------------

NewPlayer ==
  [x |-> LaneX(1), y |-> groundY, vy |-> 0,
   currentLane |-> 1, targetLane |-> 1,
   isJumping |-> FALSE, isSliding |-> FALSE, slideTime |-> 0,
   invulnerable |-> FALSE, invulnerableTime |-> 0]

\* Player.update, lane steering
PlayerSteer(p, dt) ==
  LET tl == clamp(p.targetLane, 0, 2)
      targetX == LaneX(tl)
      nx == lerp(p.x, targetX, dt * LerpRate)
  IN [p EXCEPT !.targetLane = tl,
               !.x = nx,
               !.currentLane = IF Abs(nx - targetX) < SnapDistance * 1000
                               THEN tl ELSE p.currentLane]

\* jumping physics that lands the player where the fall has taken it
PlayerJumpStepNoClamp(p, dt) ==
  IF p.isJumping
  THEN LET v == p.vy + Gravity * dt
           ny == p.y + (v * dt) \div 1000
       IN IF ny >= groundY
          THEN [p EXCEPT !.y = ny, !.vy = 0, !.isJumping = FALSE]
          ELSE [p EXCEPT !.y = ny, !.vy = v]
  ELSE p

\* Player.update, jumping physics
PlayerJumpStep(p, dt) ==
  IF p.isJumping
  THEN LET v == p.vy + Gravity * dt
           ny == p.y + (v * dt) \div 1000
       IN IF ny >= groundY
          THEN [p EXCEPT !.y = groundY, !.vy = 0, !.isJumping = FALSE]
          ELSE [p EXCEPT !.y = ny, !.vy = v]
  ELSE p

\* Player.update, sliding countdown
PlayerSlideStep(p, dt) ==
  IF p.isSliding
  THEN LET t == p.slideTime - dt
       IN [p EXCEPT !.slideTime = t, !.isSliding = ~(t <= 0)]
  ELSE p

\* Player.update, invulnerability countdown
PlayerInvulnerableStep(p, dt) ==
  IF p.invulnerable
  THEN LET t == p.invulnerableTime - dt
       IN [p EXCEPT !.invulnerableTime = t, !.invulnerable = ~(t <= 0)]
  ELSE p

PlayerUpdate(p, dt) ==
  PlayerInvulnerableStep(PlayerSlideStep(PlayerJumpStep(PlayerSteer(p, dt), dt), dt), dt)

jump(p) ==
  IF ~p.isJumping /\ ~p.isSliding
  THEN [p EXCEPT !.isJumping = TRUE, !.vy = -(JumpVelocity * 1000)]
  ELSE p

\* slide() that does not look at isJumping
slideWhileJumping(p) ==
  IF ~p.isSliding
  THEN [p EXCEPT !.isSliding = TRUE, !.slideTime = SlideDuration]
  ELSE p

slide(p) ==
  IF ~p.isJumping /\ ~p.isSliding
  THEN [p EXCEPT !.isSliding = TRUE, !.slideTime = SlideDuration]
  ELSE p

\* moveLane() without the clamp
moveLaneUnclamped(p, direction) ==
  [p EXCEPT !.targetLane = p.targetLane + direction]

moveLane(p, direction) ==
  [p EXCEPT !.targetLane = clamp(p.targetLane + direction, 0, 2)]

\* Player.getHitbox: height * 0.6 and height * 0.4 while sliding
PlayerHitbox(p) ==
  LET full == PlayerHeight * 1000
      height == IF p.isSliding THEN (full * 6) \div 10 ELSE full
      y == IF p.isSliding THEN p.y + (full * 4) \div 10 ELSE p.y
  IN [x |-> p.x - (PlayerWidth * 1000) \div 2, y |-> y - height,
      width |-> PlayerWidth * 1000, height |-> height]

\* ------------------------------------------------------------------------
\* Obstacle, Coin, PowerUp, Particle
\* ------------------------------------------------------------------------

ObstacleWidth(type) ==
  CASE type = "barrier" -> 40 [] type = "train" -> 60 [] type = "low" -> 50

ObstacleHeight(type) ==
  CASE type = "barrier" -> 80 [] type = "train" -> 100 [] type = "low" -> 40

\* id names the object, as for a coin
NewObstacle(lane, type, id) ==
  [x |-> LaneX(lane), y |-> -(SpawnY * 1000), lane |-> lane, type |-> type,
   id |-> id]

ObstacleUpdate(o, dt, gameSpeed) == [o EXCEPT !.y = o.y + gameSpeed * dt]

ObstacleHitbox(o) ==
  [x |-> o.x - (ObstacleWidth(o.type) * 1000) \div 2,
   y |-> o.y - ObstacleHeight(o.type) * 1000,
   width |-> ObstacleWidth(o.type) * 1000,
   height |-> ObstacleHeight(o.type) * 1000]

\* id is not a field of the source: it names the object, so that a property
\* can follow one coin from tick to tick
NewCoin(lane, i, id) ==
  [x |-> LaneX(lane), y |-> -(SpawnY * 1000) - i * CoinGapY * 1000,
   lane |-> lane, collected |-> FALSE, id |-> id]

\* Vector2D.distance(a, b) < r px, compared on squares in 1/10 px
\* (for distance < 150 the force min(1, 300 / distance) is always 1)
Within(ax, ay, bx, by, r) ==
  LET dx == (ax - bx) \div 100
      dy == (ay - by) \div 100
  IN dx * dx + dy * dy < (r * 10) * (r * 10)

\* Coin.update; magnetTarget is never assigned, so the coin always scrolls
CoinUpdate(c, dt, gameSpeed, px, py, magnetActive) ==
  LET pulled == magnetActive /\ ~c.collected /\ Within(c.x, c.y, px, py, MagnetRange)
      mx == IF pulled THEN lerp(c.x, px, dt * MagnetRate) ELSE c.x
      my == IF pulled THEN lerp(c.y, py, dt * MagnetRate) ELSE c.y
  IN [c EXCEPT !.x = mx, !.y = my + gameSpeed * dt]

CoinHitbox(c) ==
  [x |-> c.x - (CoinSize * 1000) \div 2, y |-> c.y - (CoinSize * 1000) \div 2,
   width |-> CoinSize * 1000, height |-> CoinSize * 1000]

\* id names the object, as for a coin
NewPowerUp(lane, type, id) ==
  [x |-> LaneX(lane), y |-> -(SpawnY * 1000), lane |-> lane, type |-> type,
   collected |-> FALSE, id |-> id]

PowerUpUpdate(u, dt, gameSpeed) == [u EXCEPT !.y = u.y + gameSpeed * dt]

PowerUpHitbox(u) ==
  [x |-> u.x - (PowerUpSize * 1000) \div 2, y |-> u.y - (PowerUpSize * 1000) \div 2,
   width |-> PowerUpSize * 1000, height |-> PowerUpSize * 1000]

\* Particle.update: the new particle, kept by the filter iff life > 0
ParticleUpdate(q, dt) == [q EXCEPT !.life = q.life - dt]

isColliding(rect1, rect2) ==
  /\ rect1.x < rect2.x + rect2.width
  /\ rect1.x + rect1.width > rect2.x
  /\ rect1.y < rect2.y + rect2.height
  /\ rect1.y + rect1.height > rect2.y

\* ------------------------------------------------------------------------
\* GameEngine: the engine object is one record; events logs, in order, the
\* onPlaySound / onStateChange / onScoreChange calls made by the handler
\* that ran last; spawned counts the obstacles, coins and power-ups created
\* so far and gives each its id
\* ------------------------------------------------------------------------

EmptyMap == [k \in {} |-> 0]

\* Map.set(key, value)
MapSet(m, key, value) ==
  [k \in DOMAIN m \cup {key} |-> IF k = key THEN value ELSE m[k]]

\* the Map after deleting every entry with now > endTime
MapPurge(m, now) ==
  [k \in {j \in DOMAIN m : ~(now > m[j])} |-> m[k]]

\* Map.has(key)
MapHas(m, key) == key \in DOMAIN m

NewEngine ==
  [state |-> "menu", lastTime |-> 0, animationId |-> 1,
   player |-> NewPlayer,
   obstacles |-> <<>>, coins |-> <<>>, powerUps |-> <<>>, particles |-> <<>>,
   gameSpeed |-> BaseSpeed, score |-> 0, lives |-> InitialLives,
   lastObstacleSpawn |-> 0, lastCoinSpawn |-> 0, lastPowerUpSpawn |-> 0,
   obstacleSpawnInterval |-> InitialInterval,
   activePowerUps |-> EmptyMap,
   events |-> <<>>,
   spawned |-> 0]

\* the observers' log is emptied when a handler starts
ClearEvents(e) == [e EXCEPT !.events = <<>>]

SoundEvent(name) == [kind |-> "sound", name |-> name, value |-> 0]
StateEvent(name) == [kind |-> "state", name |-> name, value |-> 0]
ScoreEvent(value) == [kind |-> "score", name |-> "", value |-> value]

onPlaySound(e, name) == [e EXCEPT !.events = Append(@, SoundEvent(name))]

onScoreChange(e, value) == [e EXCEPT !.events = Append(@, ScoreEvent(value))]

onStateChange(e, newState) == [e EXCEPT !.events = Append(@, StateEvent(newState))]

setState(e, newState) == onStateChange([e EXCEPT !.state = newState], newState)

\* resetGame() that leaves the three spawn stamps as they are
resetGameKeepStamps(e) ==
  onScoreChange(
    [e EXCEPT !.score = 0, !.lives = InitialLives, !.gameSpeed = BaseSpeed,
              !.obstacles = <<>>, !.coins = <<>>, !.powerUps = <<>>,
              !.particles = <<>>, !.activePowerUps = EmptyMap,
              !.player = NewPlayer],
    0)

resetGame(e) ==
  onScoreChange(
    [e EXCEPT !.score = 0, !.lives = InitialLives, !.gameSpeed = BaseSpeed,
              !.obstacles = <<>>, !.coins = <<>>, !.powerUps = <<>>,
              !.particles = <<>>, !.activePowerUps = EmptyMap,
              !.lastObstacleSpawn = 0, !.lastCoinSpawn = 0,
              !.lastPowerUpSpawn = 0, !.player = NewPlayer],
    0)

startGame(e) == setState(resetGame(e), "playing")

pauseGame(e) == IF e.state = "playing" THEN setState(e, "paused") ELSE e

resumeGame(e) == IF e.state = "paused" THEN setState(e, "playing") ELSE e

createParticles(e, color, count) ==
  [e EXCEPT !.particles = @ \o Repeat([color |-> color, life |-> ParticleLife], count)]

PowerUpDuration(type) ==
  IF type = "magnet" THEN 8000 ELSE IF type = "speed" THEN 6000 ELSE 10000

PowerUpColor(type) ==
  IF type = "magnet" THEN "#9B59B6" ELSE IF type = "speed" THEN "#E74C3C" ELSE "#3498DB"

\* activatePowerUp() that adds the duration to an expiry already there
activatePowerUpStacking(e, type, now) ==
  LET duration == PowerUpDuration(type)
      from == IF MapHas(e.activePowerUps, type) THEN e.activePowerUps[type] ELSE now
      e1 == [e EXCEPT !.activePowerUps = MapSet(@, type, from + duration)]
  IN IF type = "shield"
     THEN [e1 EXCEPT !.player.invulnerable = TRUE,
                     !.player.invulnerableTime = duration]
     ELSE e1

\* activatePowerUp() that gives a Shield the grace period's invulnerability
activatePowerUpGrace(e, type, now) ==
  LET duration == PowerUpDuration(type)
      e1 == [e EXCEPT !.activePowerUps = MapSet(@, type, now + duration)]
  IN IF type = "shield"
     THEN [e1 EXCEPT !.player.invulnerable = TRUE,
                     !.player.invulnerableTime = GraceDuration]
     ELSE e1

\* activatePowerUp() taking the duration in seconds
activatePowerUpSeconds(e, type, now) ==
  LET duration == PowerUpDuration(type) \div 1000
      e1 == [e EXCEPT !.activePowerUps = MapSet(@, type, now + duration)]
  IN IF type = "shield"
     THEN [e1 EXCEPT !.player.invulnerable = TRUE,
                     !.player.invulnerableTime = duration]
     ELSE e1

activatePowerUp(e, type, now) ==
  LET duration == PowerUpDuration(type)
      e1 == [e EXCEPT !.activePowerUps = MapSet(@, type, now + duration)]
  IN IF type = "shield"
     THEN [e1 EXCEPT !.player.invulnerable = TRUE,
                     !.player.invulnerableTime = duration]
     ELSE e1

\* handlePlayerHit() ending the game when one life is left
handlePlayerHitEarlyEnd(e) ==
  IF MapHas(e.activePowerUps, "shield") THEN e
  ELSE LET e1 == onPlaySound([e EXCEPT !.lives = @ - 1], "hit")
           e2 == createParticles(e1, "#FF4444", 10)
           e3 == [e2 EXCEPT !.player.invulnerable = TRUE,
                            !.player.invulnerableTime = GraceDuration]
       IN IF e3.lives <= 1
          THEN onPlaySound(setState(e3, "gameOver"), "gameover")
          ELSE e3

handlePlayerHit(e) ==
  IF MapHas(e.activePowerUps, "shield") THEN e
  ELSE LET e1 == onPlaySound([e EXCEPT !.lives = @ - 1], "hit")
           e2 == createParticles(e1, "#FF4444", 10)
           e3 == [e2 EXCEPT !.player.invulnerable = TRUE,
                            !.player.invulnerableTime = GraceDuration]
       IN IF e3.lives <= 0
          THEN onPlaySound(setState(e3, "gameOver"), "gameover")
          ELSE e3

\* the coin loop that pays a coin without setting its collected flag
CollectCoinsNoFlag(e, hitbox) ==
  LET Hit(c) == ~c.collected /\ isColliding(hitbox, CoinHitbox(c))
      n == Cardinality({i \in 1..Len(e.coins) : Hit(e.coins[i])})
  IN [e EXCEPT !.score = @ + n * CoinScore * 1000,
               !.events = @ \o Repeat(SoundEvent("coin"), n),
               !.particles = @ \o Repeat([color |-> "#FFD700", life |-> ParticleLife], 5 * n)]

\* checkCollisions, coin loop: every uncollected coin under the hit-box
CollectCoins(e, hitbox) ==
  LET Hit(c) == ~c.collected /\ isColliding(hitbox, CoinHitbox(c))
      n == Cardinality({i \in 1..Len(e.coins) : Hit(e.coins[i])})
      Mark(c) == IF Hit(c) THEN [c EXCEPT !.collected = TRUE] ELSE c
  IN [e EXCEPT !.coins = MapSeq(Mark, @),
               !.score = @ + n * CoinScore * 1000,
               !.events = @ \o Repeat(SoundEvent("coin"), n),
               !.particles = @ \o Repeat([color |-> "#FFD700", life |-> ParticleLife], 5 * n)]

\* checkCollisions, power-up loop from index i on
RECURSIVE CollectPowerUps(_, _, _, _)
CollectPowerUps(e, hitbox, i, now) ==
  IF i > Len(e.powerUps) THEN e
  ELSE LET u == e.powerUps[i]
       IN IF ~u.collected /\ isColliding(hitbox, PowerUpHitbox(u))
          THEN LET e1 == [e EXCEPT !.powerUps[i].collected = TRUE]
                   e2 == activatePowerUp(e1, u.type, now)
                   e3 == onPlaySound(e2, "powerup")
                   e4 == createParticles(e3, PowerUpColor(u.type), 8)
               IN CollectPowerUps(e4, hitbox, i + 1, now)
          ELSE CollectPowerUps(e, hitbox, i + 1, now)

\* the obstacle loop without the invulnerable test
CheckObstaclesAlways(e, hitbox) ==
  IF \E i \in 1..Len(e.obstacles) : isColliding(hitbox, ObstacleHitbox(e.obstacles[i]))
  THEN handlePlayerHit(e)
  ELSE e

\* checkCollisions, obstacle loop: the first overlap is handled, then break
CheckObstacles(e, hitbox) ==
  IF ~e.player.invulnerable
     /\ \E i \in 1..Len(e.obstacles) : isColliding(hitbox, ObstacleHitbox(e.obstacles[i]))
  THEN handlePlayerHit(e)
  ELSE e

\* checkCollisions() with the obstacle loop ahead of the two pickup loops
checkCollisionsHazardsFirst(e, now) ==
  LET playerHitbox == PlayerHitbox(e.player)
  IN CollectPowerUps(
       CollectCoins(CheckObstacles(e, playerHitbox), playerHitbox),
       playerHitbox, 1, now)

checkCollisions(e, now) ==
  LET playerHitbox == PlayerHitbox(e.player)
  IN CheckObstacles(
       CollectPowerUps(CollectCoins(e, playerHitbox), playerHitbox, 1, now),
       playerHitbox)

spawnObstacle(e, rnd) ==
  LET lane == FloorDraw(rnd.obLane, 3)
      type == ObstacleTypes[FloorDraw(rnd.obType, 3) + 1]
  IN [e EXCEPT !.obstacles = Append(@, NewObstacle(lane, type, e.spawned + 1)),
               !.spawned = @ + 1]

spawnCoin(e, rnd) ==
  LET numCoins == IF rnd.coinA < 300 THEN 3 ELSE IF rnd.coinB < 600 THEN 2 ELSE 1
      baseLane == FloorDraw(rnd.coinLane, 3)
  IN [e EXCEPT !.coins =
        @ \o [i \in 1..numCoins |->
                NewCoin(Min(2, baseLane + (i - 1)), i - 1, e.spawned + i)],
               !.spawned = @ + numCoins]

spawnPowerUp(e, rnd) ==
  LET lane == FloorDraw(rnd.puLane, 3)
      type == PowerUpOrder[FloorDraw(rnd.puType, 3) + 1]
  IN [e EXCEPT !.powerUps = Append(@, NewPowerUp(lane, type, e.spawned + 1)),
               !.spawned = @ + 1]

\* a coin gate that fires as soon as any time has passed
CoinGateEager(e, now) == now - e.lastCoinSpawn > 0

\* the three spawn gates of update
ObstacleGate(e, now) == now - e.lastObstacleSpawn > e.obstacleSpawnInterval
CoinGate(e, now) == now - e.lastCoinSpawn > CoinInterval
PowerUpGate(e, now) == now - e.lastPowerUpSpawn > PowerUpInterval

Spawn(e, now, rnd) ==
  LET e1 == IF ObstacleGate(e, now)
            THEN [spawnObstacle(e, rnd) EXCEPT !.lastObstacleSpawn = now] ELSE e
      e2 == IF CoinGate(e1, now)
            THEN [spawnCoin(e1, rnd) EXCEPT !.lastCoinSpawn = now] ELSE e1
  IN IF PowerUpGate(e2, now)
     THEN [spawnPowerUp(e2, rnd) EXCEPT !.lastPowerUpSpawn = now] ELSE e2

\* the entity updates of update() with an obstacle filter that keeps all
AdvanceKeepObstacles(e, dt, now) ==
  LET magnetActive == MapHas(e.activePowerUps, "magnet")
      Ob(o) == ObstacleUpdate(o, dt, e.gameSpeed)
      Co(c) == CoinUpdate(c, dt, e.gameSpeed, e.player.x, e.player.y, magnetActive)
      Pu(u) == PowerUpUpdate(u, dt, e.gameSpeed)
      Pa(q) == ParticleUpdate(q, dt)
      KeepPick(c) == c.y < (canvas.height + PickupMargin) * 1000 /\ ~c.collected
      KeepPa(q) == q.life > 0
  IN [e EXCEPT !.obstacles = MapSeq(Ob, @),
               !.coins = SelectSeq(MapSeq(Co, @), KeepPick),
               !.powerUps = SelectSeq(MapSeq(Pu, @), KeepPick),
               !.particles = SelectSeq(MapSeq(Pa, @), KeepPa),
               !.activePowerUps = MapPurge(@, now)]

\* update, "Update obstacles" to "Update active power-ups"
Advance(e, dt, now) ==
  LET magnetActive == MapHas(e.activePowerUps, "magnet")
      Ob(o) == ObstacleUpdate(o, dt, e.gameSpeed)
      Co(c) == CoinUpdate(c, dt, e.gameSpeed, e.player.x, e.player.y, magnetActive)
      Pu(u) == PowerUpUpdate(u, dt, e.gameSpeed)
      Pa(q) == ParticleUpdate(q, dt)
      KeepOb(o) == o.y < (canvas.height + ObstacleMargin) * 1000
      KeepPick(c) == c.y < (canvas.height + PickupMargin) * 1000 /\ ~c.collected
      KeepPa(q) == q.life > 0
  IN [e EXCEPT !.obstacles = SelectSeq(MapSeq(Ob, @), KeepOb),
               !.coins = SelectSeq(MapSeq(Co, @), KeepPick),
               !.powerUps = SelectSeq(MapSeq(Pu, @), KeepPick),
               !.particles = SelectSeq(MapSeq(Pa, @), KeepPa),
               !.activePowerUps = MapPurge(@, now)]

\* the end of update() without the lower limit on the spawn interval
DifficultyNoFloor(e, dt) ==
  LET e1 == [e EXCEPT !.gameSpeed = BaseSpeed + (e.score \div 500000) * 50,
                      !.obstacleSpawnInterval =
                         InitialInterval - (e.score \div 200000) * 100,
                      !.score = @ + dt * 10]
  IN onScoreChange(e1, e1.score \div 1000)

\* the end of update() with the speed doubled while a Speed pickup is held
DifficultySpeedBoost(e, dt) ==
  LET boost == IF MapHas(e.activePowerUps, "speed") THEN 2 ELSE 1
      e1 == [e EXCEPT !.gameSpeed = (BaseSpeed + (e.score \div 500000) * 50) * boost,
                      !.obstacleSpawnInterval =
                         Max(MinInterval, InitialInterval - (e.score \div 200000) * 100),
                      !.score = @ + dt * 10]
  IN onScoreChange(e1, e1.score \div 1000)

\* update, "Update game speed" to the score notification
Difficulty(e, dt) ==
  LET e1 == [e EXCEPT !.gameSpeed = BaseSpeed + (e.score \div 500000) * 50,
                      !.obstacleSpawnInterval =
                         Max(MinInterval, InitialInterval - (e.score \div 200000) * 100),
                      !.score = @ + dt * 10]
  IN onScoreChange(e1, e1.score \div 1000)

\* update(deltaTime) with currentTime = Date.now() = now
update(e, dt, now, rnd) ==
  LET e1 == [e EXCEPT !.player = PlayerUpdate(@, dt)]
      e2 == Spawn(e1, now, rnd)
      e3 == Advance(e2, dt, now)
      e4 == checkCollisions(e3, now)
  IN Difficulty(e4, dt)

\* gameLoop() that updates in every state
gameLoopAnyState(e, currentTime, now, rnd) ==
  LET deltaTime == Min(currentTime - e.lastTime, DtCap)
      e1 == [e EXCEPT !.lastTime = currentTime, !.animationId = 1]
  IN update(e1, deltaTime, now, rnd)

\* gameLoop() without the cap on deltaTime
gameLoopUncapped(e, currentTime, now, rnd) ==
  LET deltaTime == currentTime - e.lastTime
      e1 == [e EXCEPT !.lastTime = currentTime, !.animationId = 1]
  IN IF e1.state = "playing" THEN update(e1, deltaTime, now, rnd) ELSE e1

\* gameLoop() with the cap as a lower limit on deltaTime
gameLoopFloored(e, currentTime, now, rnd) ==
  LET deltaTime == Max(currentTime - e.lastTime, DtCap)
      e1 == [e EXCEPT !.lastTime = currentTime, !.animationId = 1]
  IN IF e1.state = "playing" THEN update(e1, deltaTime, now, rnd) ELSE e1

\* gameLoop(currentTime): currentTime is the frame timestamp
gameLoop(e, currentTime, now, rnd) ==
  LET deltaTime == Min(currentTime - e.lastTime, DtCap)
      e1 == [e EXCEPT !.lastTime = currentTime, !.animationId = 1]
  IN IF e1.state = "playing" THEN update(e1, deltaTime, now, rnd) ELSE e1

\* start(): the loop is entered with the timestamp 0
start(e, now, rnd) == gameLoop(e, 0, now, rnd)

\* stop(): the pending frame request is cancelled
stop(e) == IF e.animationId # 0 THEN [e EXCEPT !.animationId = 0] ELSE e

\* ------------------------------------------------------------------------
\* State
\* ------------------------------------------------------------------------

VARIABLES
  engine,    \* the GameEngine object
  clock,     \* ms since page load: the frame timestamp; Date.now() = Epoch + clock
  isMobile,  \* the constructor's isMobile: touch handlers or keyboard handlers
  lastOp,    \* the handler that ran last, its argument, the state and the
             \* target lane it found
  used,      \* how many frames, idle frames, stalls, inputs and key or touch
             \* inputs the run has had
  hist,      \* history: the Date.now() up to which the last Shield pickup runs,
             \* the simulated ms since the last life was lost (-1: none lost),
             \* activePowerUps as the last frame found it, and the ids of
             \* the coins and power-ups collected since the session began,
             \* and whether the last tick's countdown left the player
             \* without invulnerability, whether the player has been
             \* sliding in every tick so far of a low obstacle's passage
             \* ("slid") or not ("broken"; "none": no passage under way),
             \* whether a life was lost during the passage, the
             \* Date.now() of each spawn gate's last firing in any session
             \* (0: none), whether the last tick fired a gate that had
             \* fired before in the session, the ids of the obstacles,
             \* coins and power-ups that have been removed from their lists,
             \* and whether the last tick ended a jump or a slide
  page       \* the SubwaySurfers component: its gameState, score and
             \* highScore, the highScore its effect captured when it ran,
             \* the high score in localStorage (0: none), and the engines
             \* of earlier runs of the effect, stopped, whose listeners are
             \* still on the window and the canvas

vars == <<engine, clock, isMobile, lastOp, used, hist, page, canvas>>

\* bounds on one run of the model
MaxFrames == 4
MaxIdleFrames == 2
MaxStalls == 1
MaxInputs == 2
RunFrames == 640
InputDeadline == 64
KeyFrames == 14
DodgeFrames == 16
PauseFrames == 14
LongFrames == 16400
HiddenFrames == 150
PageFrames == 12
SavedHighScore == 1000
SlideFrames == 48
JumpFrames == 104
LoopFrames == 10
MoveFrames == 6

\* Math.random() draws (thousandths) offered to the spawners
Draws == [lane |-> {500}, obType |-> {500}, coinA |-> {500}, coinB |-> {500},
          puType |-> {500}]
RunDraws == [lane |-> {500}, obType |-> {100}, coinA |-> {500},
             coinB |-> {500}, puType |-> {500, 900}]

\* draws that keep every obstacle, coin and power-up out of the centre lane
LongDraws == [lane |-> {100}, obType |-> {500}, coinA |-> {500}, coinB |-> {900},
              puType |-> {500}]

\* draws that make every obstacle a low one in the centre lane
SlideDraws == [lane |-> {500}, obType |-> {900}, coinA |-> {500}, coinB |-> {500},
               puType |-> {500}]

\* draws that make every power-up a magnet or a shield
HiddenDraws == [lane |-> {500}, obType |-> {100}, coinA |-> {500}, coinB |-> {500},
                puType |-> {100, 900}]

KeyCodes == {"Enter", "Space", "ArrowLeft", "ArrowRight", "ArrowUp", "ArrowDown",
             "Escape", "KeyA"}

\* touchend displacement (clientX - touchStartX, clientY - touchStartY)
Swipes == {<<0, 0>>, <<SwipeThreshold + 1, 0>>, <<-(SwipeThreshold + 1), 0>>,
           <<0, -(SwipeThreshold + 1)>>, <<0, SwipeThreshold + 1>>,
           <<SwipeThreshold, 0>>}

SwipeName(d) ==
  CASE d = <<0, 0>> -> "tap"
    [] d = <<SwipeThreshold + 1, 0>> -> "right"
    [] d = <<-(SwipeThreshold + 1), 0>> -> "left"
    [] d = <<0, -(SwipeThreshold + 1)>> -> "up"
    [] d = <<0, SwipeThreshold + 1>> -> "down"
    [] OTHER -> "short"

NoHistory == [shieldUntil |-> 0, sinceHit |-> -1, effectsBefore |-> EmptyMap,
              paidCoins |-> {}, paidPowerUps |-> {}, exposed |-> FALSE,
              passage |-> "none", passageHit |-> FALSE,
              fired |-> [obstacle |-> 0, coin |-> 0, powerUp |-> 0],
              refired |-> FALSE, gone |-> {}, landed |-> FALSE,
              slideEnded |-> FALSE]

\* the ids of the entries of a list
Ids(list) == {list[i].id : i \in 1..Len(list)}

\* the ids of the obstacles, coins and power-ups of an engine
Listed(e) == Ids(e.obstacles) \cup Ids(e.coins) \cup Ids(e.powerUps)

\* the ids of the entries of a list whose collected flag is set
Collected(list) == {list[i].id : i \in {j \in 1..Len(list) : list[j].collected}}

\* a Shield pickup was resolved by the tick that led to e
ShieldPicked(e) ==
  \E i \in 1..Len(e.powerUps) : e.powerUps[i].collected /\ e.powerUps[i].type = "shield"

\* the player's vertical extent in its lane: from the top of the standing
\* hit-box to the bottom of the sliding one
PlayerExtent(p) ==
  [x |-> p.x - (PlayerWidth * 1000) \div 2, y |-> p.y - PlayerHeight * 1000,
   width |-> PlayerWidth * 1000,
   height |-> PlayerHeight * 1000 + (PlayerHeight * 1000 * 4) \div 10]

\* a low obstacle is passing the player: it overlaps the player's extent
LowPassing(e) ==
  \E i \in 1..Len(e.obstacles) :
    /\ e.obstacles[i].type = "low"
    /\ isColliding(PlayerExtent(e.player), ObstacleHitbox(e.obstacles[i]))

\* the history after a frame that took the engine from e to e1 with delta dt
FrameHistory(e, e1, dt, now) ==
  [shieldUntil |-> IF e.state = "playing" /\ ShieldPicked(e1)
                   THEN now + ShieldDuration ELSE hist.shieldUntil,
   sinceHit |-> IF e.state # "playing" THEN hist.sinceHit
                ELSE IF e1.lives < e.lives THEN 0
                ELSE IF hist.sinceHit < 0 THEN hist.sinceHit
                ELSE hist.sinceHit + dt,
   effectsBefore |-> e.activePowerUps,
   paidCoins |-> IF e.state = "playing"
                 THEN hist.paidCoins \cup Collected(e1.coins) ELSE hist.paidCoins,
   paidPowerUps |-> IF e.state = "playing"
                    THEN hist.paidPowerUps \cup Collected(e1.powerUps)
                    ELSE hist.paidPowerUps,
   exposed |-> e.state = "playing" /\ ~PlayerUpdate(e.player, dt).invulnerable,
   passage |-> IF e.state # "playing" THEN hist.passage
               ELSE IF ~LowPassing(e1) THEN "none"
               ELSE IF e1.player.isSliding /\ hist.passage # "broken" THEN "slid"
               ELSE "broken",
   passageHit |-> IF e.state # "playing" THEN hist.passageHit
                  ELSE IF ~LowPassing(e1) THEN FALSE
                  ELSE hist.passageHit \/ e1.lives < e.lives,
   fired |-> IF e.state # "playing" THEN hist.fired
             ELSE [obstacle |-> IF e1.lastObstacleSpawn = now THEN now
                                ELSE hist.fired.obstacle,
                   coin |-> IF e1.lastCoinSpawn = now THEN now ELSE hist.fired.coin,
                   powerUp |-> IF e1.lastPowerUpSpawn = now THEN now
                               ELSE hist.fired.powerUp],
   refired |-> /\ e.state = "playing"
               /\ \/ e1.lastObstacleSpawn = now /\ e.lastObstacleSpawn # 0
                  \/ e1.lastCoinSpawn = now /\ e.lastCoinSpawn # 0
                  \/ e1.lastPowerUpSpawn = now /\ e.lastPowerUpSpawn # 0,
   gone |-> hist.gone \cup (Listed(e) \ Listed(e1)),
   landed |-> e.state = "playing" /\ e.player.isJumping /\ ~e1.player.isJumping,
   slideEnded |-> e.state = "playing" /\ e.player.isSliding /\ ~e1.player.isSliding]

\* the component as first rendered, after its effect has run once with
\* nothing in localStorage
NewPage ==
  [gameState |-> "menu", score |-> 0, highScore |-> 0, captured |-> 0,
   saved |-> 0, stale |-> <<>>]

\* the callbacks with an onScoreChange that records every score it is given
\* as the high score
NotifyEveryScore(p, ev) ==
  IF ev.kind = "state" THEN [p EXCEPT !.gameState = ev.name]
  ELSE IF ev.kind = "score"
  THEN [p EXCEPT !.score = ev.value, !.highScore = ev.value, !.saved = ev.value]
  ELSE p

\* the component after one call of a callback the effect installed:
\* onStateChange sets gameState, onScoreChange sets score and, above the
\* captured highScore, records a new high score; onPlaySound goes to audio
Notify(p, ev) ==
  IF ev.kind = "state" THEN [p EXCEPT !.gameState = ev.name]
  ELSE IF ev.kind = "score"
  THEN IF ev.value > p.captured
       THEN [p EXCEPT !.score = ev.value, !.highScore = ev.value, !.saved = ev.value]
       ELSE [p EXCEPT !.score = ev.value]
  ELSE p

\* the component after the calls of events from index i on, in order
RECURSIVE Observe(_, _, _)
Observe(p, events, i) ==
  IF i > Len(events) THEN p ELSE Observe(Notify(p, events[i]), events, i + 1)

\* constructor, then start(): gameLoop(0) has run once in state menu
Init ==
  /\ canvas = [width |-> CanvasWidth, height |-> CanvasHeight]
  /\ engine = NewEngine
  /\ clock = 0
  /\ isMobile \in BOOLEAN
  /\ lastOp = [op |-> "start", arg |-> "", from |-> "menu", lane |-> 1]
  /\ used = [frames |-> 0, idle |-> 0, stalls |-> 0, inputs |-> 0, keys |-> 0]
  /\ hist = NoHistory
  /\ page = NewPage

\* the draws a frame consumes: a spawner draws only when its gate fires
DrawsFor(e, now, d) ==
  LET play == e.state = "playing"
      ob == play /\ ObstacleGate(e, now)
      co == play /\ CoinGate(e, now)
      pu == play /\ PowerUpGate(e, now)
  IN [obLane : IF ob THEN d.lane ELSE {0},
      obType : IF ob THEN d.obType ELSE {0},
      coinA : IF co THEN d.coinA ELSE {0},
      coinB : IF co THEN d.coinB ELSE {0},
      coinLane : IF co THEN d.lane ELSE {0},
      puLane : IF pu THEN d.lane ELSE {0},
      puType : IF pu THEN d.puType ELSE {0}]

\* Date.now()
Now == Epoch + clock

\* one requestAnimationFrame callback: gameLoop(time)
FrameStep(maxFrames, gaps, d) ==
  /\ engine.animationId # 0
  /\ used.frames < maxFrames
  /\ engine.state # "playing" => used.idle < MaxIdleFrames
  /\ \E gap \in gaps :
       /\ gap > NormalGap => used.stalls < MaxStalls
       /\ LET t == clock + gap
              now == Epoch + t
              e0 == ClearEvents(engine)
          IN /\ \E rnd \in DrawsFor(e0, now, d) : engine' = gameLoop(e0, t, now, rnd)
             /\ clock' = t
             /\ hist' = FrameHistory(engine, engine', Min(t - engine.lastTime, DtCap), now)
             /\ page' = Observe(page, engine'.events, 1)
       /\ used' = [used EXCEPT !.frames = @ + 1,
                               !.idle = IF engine.state # "playing" THEN @ + 1 ELSE @,
                               !.stalls = IF gap > NormalGap THEN @ + 1 ELSE @]
  /\ lastOp' = [op |-> "frame", arg |-> "", from |-> engine.state,
                lane |-> engine.player.targetLane]
  /\ UNCHANGED <<isMobile, canvas>>

Frame == FrameStep(MaxFrames, {NormalGap, LongGap}, Draws)

\* resetGame ran in the handler that led to e: only it reports a score
WasReset(e) == \E i \in 1..Len(e.events) : e.events[i].kind = "score"

\* a session is under way: inputs delivered then count against MaxInputs
InSession(e) == e.state \in {"playing", "paused"}

\* an input handler or a public method: the engine it leaves
InputStep(op, arg, e1) ==
  /\ InSession(engine) => used.inputs < MaxInputs
  /\ engine' = e1
  /\ lastOp' = [op |-> op, arg |-> arg, from |-> engine.state,
                lane |-> engine.player.targetLane]
  /\ used' = [used EXCEPT !.inputs = IF InSession(engine) THEN @ + 1 ELSE @,
                          !.keys = IF InSession(engine) /\ op \in {"keydown", "touchend"}
                                   THEN @ + 1 ELSE @]
  /\ hist' = IF WasReset(e1)
             THEN [NoHistory EXCEPT !.fired = hist.fired,
                                    !.gone = hist.gone \cup (Listed(engine) \ Listed(e1))]
             ELSE hist
  /\ UNCHANGED <<clock, isMobile, canvas>>

\* an input handler or a public method, and the component after the
\* handler's callbacks
Input(op, arg, e1) ==
  /\ InputStep(op, arg, e1)
  /\ page' = Observe(page, e1.events, 1)

\* a keydown listener that decodes the movement keys in every state but menu
\* and gameOver
keydownWhilePaused(e, code) ==
  IF e.state = "menu" \/ e.state = "gameOver"
  THEN IF code = "Enter" \/ code = "Space" THEN startGame(e) ELSE e
  ELSE CASE code = "ArrowLeft" -> [e EXCEPT !.player = moveLane(@, -1)]
         [] code = "ArrowRight" -> [e EXCEPT !.player = moveLane(@, 1)]
         [] code = "ArrowUp" \/ code = "Space" ->
              onPlaySound([e EXCEPT !.player = jump(@)], "jump")
         [] code = "ArrowDown" ->
              onPlaySound([e EXCEPT !.player = slide(@)], "slide")
         [] code = "Escape" -> IF e.state = "paused" THEN resumeGame(e) ELSE pauseGame(e)
         [] OTHER -> e

\* the keydown listener
keydown(e, code) ==
  IF e.state = "menu" \/ e.state = "gameOver"
  THEN IF code = "Enter" \/ code = "Space" THEN startGame(e) ELSE e
  ELSE IF e.state = "playing"
  THEN CASE code = "ArrowLeft" -> [e EXCEPT !.player = moveLane(@, -1)]
         [] code = "ArrowRight" -> [e EXCEPT !.player = moveLane(@, 1)]
         [] code = "ArrowUp" \/ code = "Space" ->
              onPlaySound([e EXCEPT !.player = jump(@)], "jump")
         [] code = "ArrowDown" ->
              onPlaySound([e EXCEPT !.player = slide(@)], "slide")
         [] code = "Escape" -> pauseGame(e)
         [] OTHER -> e
  ELSE IF e.state = "paused" /\ code = "Escape" THEN resumeGame(e)
  ELSE e

\* the touchend listener; deltaX, deltaY from the touchstart position
touchend(e, deltaX, deltaY) ==
  IF e.state = "menu" \/ e.state = "gameOver" THEN startGame(e)
  ELSE IF e.state # "playing" THEN e
  ELSE IF Abs(deltaX) > Abs(deltaY)
  THEN IF deltaX > SwipeThreshold THEN [e EXCEPT !.player = moveLane(@, 1)]
       ELSE IF deltaX < -SwipeThreshold THEN [e EXCEPT !.player = moveLane(@, -1)]
       ELSE e
  ELSE IF deltaY < -SwipeThreshold THEN onPlaySound([e EXCEPT !.player = jump(@)], "jump")
       ELSE IF deltaY > SwipeThreshold THEN onPlaySound([e EXCEPT !.player = slide(@)], "slide")
       ELSE e

\* the canvas click listener
click(e) ==
  IF e.state = "menu" \/ e.state = "gameOver" THEN startGame(e) ELSE e

KeyDown ==
  /\ ~isMobile
  /\ \E code \in KeyCodes : Input("keydown", code, keydown(ClearEvents(engine), code))

TouchEnd ==
  /\ isMobile
  /\ \E d \in Swipes : Input("touchend", SwipeName(d), touchend(ClearEvents(engine), d[1], d[2]))

Click == Input("click", "", click(ClearEvents(engine)))

\* the public methods, as the page's buttons call them
StartGame == Input("startGame", "", startGame(ClearEvents(engine)))

PauseGame == Input("pauseGame", "", pauseGame(ClearEvents(engine)))

ResumeGame == Input("resumeGame", "", resumeGame(ClearEvents(engine)))

ResetGame == Input("resetGame", "", resetGame(ClearEvents(engine)))

Next ==
  \/ Frame
  \/ KeyDown
  \/ TouchEnd
  \/ Click
  \/ StartGame
  \/ PauseGame
  \/ ResumeGame
  \/ ResetGame

Spec == Init /\ [][Next]_vars

\* The page laid out in any way: the container may have no width or no
\* height when resizeCanvas reads it, and the constructor is handed what
\* resizeCanvas found
InitCanvas ==
  /\ canvas \in [width : {0, CanvasWidth}, height : {0, CanvasHeight}]
  /\ engine = NewEngine
  /\ clock = 0
  /\ isMobile \in BOOLEAN
  /\ lastOp = [op |-> "start", arg |-> "", from |-> "menu", lane |-> 1]
  /\ used = [frames |-> 0, idle |-> 0, stalls |-> 0, inputs |-> 0, keys |-> 0]
  /\ hist = NoHistory
  /\ page = NewPage

SpecCanvas == InitCanvas /\ [][Next]_vars

\* A long run: frames NormalGap apart (a frame may come LongGap late while
\* the game is not playing or within the first InputDeadline ms), a click on
\* the canvas whenever the game is in menu or gameOver, a pause within the
\* first InputDeadline ms, and lane changes within the first KeyFrames frames;
\* a run with lane changes is followed for DodgeFrames frames
RunFrame ==
  FrameStep(IF used.keys > 0 THEN DodgeFrames ELSE RunFrames,
            IF engine.state = "playing" /\ clock >= InputDeadline
            THEN {NormalGap} ELSE {NormalGap, LongGap},
            RunDraws)

RunKey ==
  /\ ~isMobile
  /\ engine.state = "playing"
  /\ used.frames < KeyFrames
  /\ \E code \in {"ArrowLeft", "ArrowRight"} :
       Input("keydown", code, keydown(ClearEvents(engine), code))

RunClick ==
  /\ engine.state \in {"menu", "gameOver"}
  /\ Click

RunPause ==
  /\ engine.state = "playing"
  /\ clock < InputDeadline
  /\ PauseGame

RunResume ==
  /\ engine.state = "paused"
  /\ ResumeGame

NextRun ==
  \/ RunFrame
  \/ RunClick
  \/ RunPause
  \/ RunResume
  \/ RunKey

SpecRun == Init /\ [][NextRun]_vars

\* A short run with pauses: frames NormalGap or LongGap apart, a click on the
\* canvas in menu or gameOver, the Pause and Resume buttons at any time
PauseFrame == FrameStep(PauseFrames, {NormalGap, LongGap}, RunDraws)

NextPause ==
  \/ PauseFrame
  \/ RunClick
  \/ PauseGame
  \/ ResumeGame

SpecPause == Init /\ [][NextPause]_vars

\* A run of survival: a click on the canvas in menu, then frames NormalGap
\* apart with the player left in the centre lane and everything else
\* spawning in the left lane
LongFrame == FrameStep(LongFrames, {NormalGap}, LongDraws)

NextLong ==
  \/ LongFrame
  \/ RunClick

SpecLong == Init /\ [][NextLong]_vars

\* A run in which the tab is hidden once: a click on the canvas in menu or
\* gameOver, then frames NormalGap apart, one of them HiddenGap late
HiddenFrame == FrameStep(HiddenFrames, {NormalGap, HiddenGap}, HiddenDraws)

NextHidden ==
  \/ HiddenFrame
  \/ RunClick

SpecHidden == Init /\ [][NextHidden]_vars

\* A run with slides: a click on the canvas in menu or gameOver, frames
\* NormalGap apart, and the slide key or a downward swipe at any time of
\* the game
SlideFrame == FrameStep(SlideFrames, {NormalGap}, SlideDraws)

SlideKey ==
  /\ ~isMobile
  /\ engine.state = "playing"
  /\ Input("keydown", "ArrowDown", keydown(ClearEvents(engine), "ArrowDown"))

SlideSwipe ==
  /\ isMobile
  /\ engine.state = "playing"
  /\ Input("touchend", "down", touchend(ClearEvents(engine), 0, SwipeThreshold + 1))

NextSlide ==
  \/ SlideFrame
  \/ RunClick
  \/ SlideKey
  \/ SlideSwipe

SpecSlide == Init /\ [][NextSlide]_vars

\* A run with jumps and slides: a click on the canvas in menu or gameOver,
\* frames NormalGap apart, and the jump and slide keys or swipes within the
\* first MoveFrames frames
JumpFrame == FrameStep(JumpFrames, {NormalGap}, Draws)

\* JumpFrame as the counters see it: it is enabled when JumpFrame is, and
\* the steps of NextJump that take it are the JumpFrame steps
JumpFrameCounted ==
  /\ used.frames < JumpFrames
  /\ engine.state # "playing" => used.idle < MaxIdleFrames
  /\ used' = [used EXCEPT !.frames = @ + 1,
                          !.idle = IF engine.state # "playing" THEN @ + 1 ELSE @]

JumpKey ==
  /\ ~isMobile
  /\ engine.state = "playing"
  /\ used.frames < MoveFrames
  /\ \E code \in {"ArrowUp", "ArrowDown"} :
       Input("keydown", code, keydown(ClearEvents(engine), code))

JumpSwipe ==
  /\ isMobile
  /\ engine.state = "playing"
  /\ used.frames < MoveFrames
  /\ \E dy \in {SwipeThreshold + 1, -(SwipeThreshold + 1)} :
       Input("touchend", IF dy > 0 THEN "down" ELSE "up",
             touchend(ClearEvents(engine), 0, dy))

NextJump ==
  \/ JumpFrame
  \/ RunClick
  \/ JumpKey
  \/ JumpSwipe

\* requestAnimationFrame calls the loop back for as long as the page is
\* shown: a frame that can be taken is taken
SpecJump == Init /\ [][NextJump]_vars /\ WF_used(JumpFrameCounted)

\* The engine stopped and started again by its owner: a click on the canvas
\* in menu or gameOver, frames NormalGap apart while a frame is requested,
\* stop() at any time and start() on a stopped engine
LoopFrame == FrameStep(LoopFrames, {NormalGap}, Draws)

Stop == Input("stop", "", stop(ClearEvents(engine)))

Start ==
  /\ engine.animationId = 0
  /\ LET e0 == ClearEvents(engine)
     IN \E rnd \in DrawsFor(e0, Now, Draws) :
          /\ InputStep("start", "", start(e0, Now, rnd))
          /\ page' = Observe(page, engine'.events, 1)

NextLoop ==
  \/ LoopFrame
  \/ RunClick
  \/ Stop
  \/ Start

SpecLoop == Init /\ [][NextLoop]_vars

\* The game on its page. A window or canvas event goes to the listeners of
\* every engine constructed so far, oldest first: each constructor adds its
\* own and nothing removes them. The canvas lies under the overlay of the
\* menu, paused and gameOver screens, so it is clicked or touched only while
\* the component shows the playing screen.
Listen(e, op, arg) ==
  CASE op = "keydown" -> keydown(e, arg)
    [] op = "touchend" -> touchend(e, 0, 0)
    [] OTHER -> click(e)

\* the callbacks of the engines st[i], st[i + 1], ..., in order; an engine
\* that is stopped reports no score but the 0 of resetGame, which is above
\* no captured highScore
RECURSIVE StaleEvents(_, _)
StaleEvents(st, i) ==
  IF i > Len(st) THEN <<>> ELSE st[i].events \o StaleEvents(st, i + 1)

PageListener(op, arg) ==
  LET st1 == [i \in 1..Len(page.stale) |-> Listen(ClearEvents(page.stale[i]), op, arg)]
      e1 == Listen(ClearEvents(engine), op, arg)
  IN /\ InputStep(op, arg, e1)
     /\ page' = [Observe(page, StaleEvents(st1, 1) \o e1.events, 1) EXCEPT !.stale = st1]

PageKey ==
  /\ ~isMobile
  /\ \E code \in {"Enter", "Escape"} : PageListener("keydown", code)

PageTap ==
  /\ isMobile
  /\ page.gameState = "playing"
  /\ PageListener("touchend", "tap")

PageClick ==
  /\ page.gameState = "playing"
  /\ PageListener("click", "")

\* the buttons of the screen the component shows; gameEngineRef.current is
\* the engine of the last run of the effect
HandleStart ==
  /\ page.gameState = "menu"
  /\ Input("handleStart", "", startGame(ClearEvents(engine)))

HandlePause ==
  /\ page.gameState = "playing"
  /\ Input("handlePause", "", pauseGame(ClearEvents(engine)))

HandleResume ==
  /\ page.gameState = "paused"
  /\ Input("handleResume", "", resumeGame(ClearEvents(engine)))

HandleRestart ==
  /\ page.gameState \in {"paused", "gameOver"}
  /\ LET e1 == resetGame(ClearEvents(engine))
     IN /\ InputStep("handleRestart", "", e1)
        /\ page' = [Observe(page, e1.events, 1) EXCEPT !.score = 0]

\* the effect runs again once highScore differs from the value of its last
\* run: the cleanup stops the engine, then a new engine is constructed in
\* menu, becomes gameEngineRef.current, gets callbacks that capture the new
\* highScore, and is started; the high score read back from localStorage is
\* the one just recorded
Remount ==
  /\ page.highScore # page.captured
  /\ engine' = [NewEngine EXCEPT !.spawned = engine.spawned]
  /\ page' = [page EXCEPT !.captured = page.highScore,
                          !.highScore = IF page.saved # 0 THEN page.saved ELSE @,
                          !.stale = Append(@, stop(ClearEvents(engine)))]
  /\ lastOp' = [op |-> "mount", arg |-> "", from |-> engine.state,
                lane |-> engine.player.targetLane]
  /\ hist' = NoHistory
  /\ UNCHANGED <<clock, isMobile, used, canvas>>

PageFrame == FrameStep(PageFrames, {NormalGap}, Draws)

NextPage ==
  \/ PageFrame
  \/ PageKey
  \/ PageTap
  \/ PageClick
  \/ HandleStart
  \/ HandlePause
  \/ HandleResume
  \/ HandleRestart
  \/ Remount

SpecPage == Init /\ [][NextPage]_vars

\* The page opened with a high score of SavedHighScore in localStorage: the
\* effect's first run constructs an engine and calls setHighScore with the
\* saved score, its second run stops that engine and constructs the engine
\* that drives the game, with the saved score captured. Then the Start
\* button, frames NormalGap apart with the player left in the centre lane,
\* and the Restart and Play Again buttons.
InitSaved ==
  /\ canvas = [width |-> CanvasWidth, height |-> CanvasHeight]
  /\ engine = NewEngine
  /\ clock = 0
  /\ isMobile \in BOOLEAN
  /\ lastOp = [op |-> "start", arg |-> "", from |-> "menu", lane |-> 1]
  /\ used = [frames |-> 0, idle |-> 0, stalls |-> 0, inputs |-> 0, keys |-> 0]
  /\ hist = NoHistory
  /\ page = [NewPage EXCEPT !.highScore = SavedHighScore,
                            !.captured = SavedHighScore,
                            !.saved = SavedHighScore,
                            !.stale = <<NewEngine>>]

SavedFrame == FrameStep(RunFrames, {NormalGap}, Draws)

NextSaved ==
  \/ SavedFrame
  \/ HandleStart
  \/ HandlePause
  \/ HandleResume
  \/ HandleRestart

SpecSaved == InitSaved /\ [][NextSaved]_vars

\* ------------------------------------------------------------------------
\* Observations the properties are written in
\* ------------------------------------------------------------------------

\* Date.now() at the current state

\* the engine without the log of its observers' calls
World(e) == [e EXCEPT !.events = <<>>]

\* how many times the handler that led to e played the sound
SoundCount(e, name) ==
  Cardinality({i \in 1..Len(e.events) : e.events[i] = SoundEvent(name)})

\* the handler that led to e made a call of this kind to an observer
Emits(e, kind) == \E i \in 1..Len(e.events) : e.events[i].kind = kind

\* the obstacles under the player's hit-box
Overlapping(e) ==
  {i \in 1..Len(e.obstacles) :
     isColliding(PlayerHitbox(e.player), ObstacleHitbox(e.obstacles[i]))}

Overlap(e) == Overlapping(e) # {}

ShieldActive(e) == MapHas(e.activePowerUps, "shield")

\* the step is a frame / is a frame that found the game playing
IsFrame == lastOp'.op = "frame"
IsTick == IsFrame /\ engine.state = "playing"

\* the step delivers a Confirm that does not depend on the state
IsConfirm ==
  \/ lastOp'.op \in {"startGame", "click"}
  \/ lastOp'.op = "keydown" /\ lastOp'.arg = "Enter"

\* the step delivers the raw input of a jump or slide / of any movement
IsJumpOrSlide ==
  \/ lastOp'.op = "keydown" /\ lastOp'.arg \in {"ArrowUp", "Space", "ArrowDown"}
  \/ lastOp'.op = "touchend" /\ lastOp'.arg \in {"up", "down"}

IsMovementKey ==
  lastOp'.op = "keydown"
  /\ lastOp'.arg \in {"ArrowLeft", "ArrowRight", "ArrowUp", "ArrowDown"}

IsSwipe == lastOp'.op = "touchend" /\ lastOp'.arg \in {"left", "right", "up", "down"}

\* ------------------------------------------------------------------------
\* C1
\* ------------------------------------------------------------------------

C1Edges ==
  engine'.state # engine.state =>
    \/ engine.state \in {"menu", "gameOver"} /\ engine'.state = "playing"
       /\ lastOp'.op \in {"startGame", "click", "keydown", "touchend"}
    \/ engine.state = "playing" /\ engine'.state = "paused"
       /\ lastOp'.op \in {"pauseGame", "keydown"}
    \/ engine.state = "paused" /\ engine'.state = "playing"
       /\ lastOp'.op \in {"resumeGame", "keydown"}
    \/ engine.state = "playing" /\ engine'.state = "gameOver"
       /\ IsFrame /\ engine'.lives = 0

C1ConfirmIgnored ==
  (IsConfirm /\ engine.state \in {"playing", "paused"}) =>
    World(engine') = World(engine)

\* C1: the state starts as menu and changes only along menu -> playing
\* (Confirm), playing -> paused, paused -> playing, playing -> gameOver (a
\* hit that takes the last life) and gameOver -> playing (Confirm); a Confirm
\* delivered while playing or paused changes neither the state nor anything
\* else of the session.
C1_Lifecycle ==
  engine.state = "menu" /\ [][C1Edges /\ C1ConfirmIgnored]_vars

\* ------------------------------------------------------------------------
\* C2
\* ------------------------------------------------------------------------

\* the ms each spawn gate has counted since it last fired
GateElapsed(e, now) ==
  <<now - e.lastObstacleSpawn, now - e.lastCoinSpawn, now - e.lastPowerUpSpawn>>

\* the ms each active effect has left
EffectRemaining(e, now) == [k \in DOMAIN e.activePowerUps |-> e.activePowerUps[k] - now]

\* C2: a frame that finds the game paused advances no timer: every spawn
\* gate has counted as much after it as before, and every active effect has
\* as much time left.
C2_PausedTimeFrozen ==
  [][(IsFrame /\ engine.state = "paused") =>
       /\ GateElapsed(engine', Now') = GateElapsed(engine, Now)
       /\ EffectRemaining(engine', Now') = EffectRemaining(engine, Now)]_vars

\* ------------------------------------------------------------------------
\* C3
\* ------------------------------------------------------------------------

\* what a frame outside playing must leave alone
Session(e) ==
  <<e.score, e.lives, e.player, e.obstacles, e.coins, e.powerUps, e.particles,
    e.gameSpeed, e.obstacleSpawnInterval>>

\* C3: a frame that finds the state other than playing leaves score, lives,
\* the player, the four entity lists, gameSpeed and obstacleSpawnInterval as
\* they were, and reports no score and plays no sound.
C3_IdleFrameNoOp ==
  [][(IsFrame /\ engine.state # "playing") =>
       /\ Session(engine') = Session(engine)
       /\ engine'.state = engine.state
       /\ ~Emits(engine', "score")
       /\ ~Emits(engine', "sound")]_vars

\* a frame has run in paused with obstacles and coins on the track
C3_Witness ==
  /\ lastOp.op = "frame"
  /\ lastOp.from = "paused"
  /\ engine.obstacles # <<>>
  /\ engine.coins # <<>>

\* ------------------------------------------------------------------------
\* C4
\* ------------------------------------------------------------------------

\* the Shield protects the tick that ends in the primed state: its entry is
\* in activePowerUps, or the last pickup's duration has not run out
Shielded ==
  \/ ShieldActive(engine')
  \/ hist'.shieldUntil > 0 /\ Now' <= hist'.shieldUntil

\* C4: on every tick from a Shield pickup to the Shield's expiry, an obstacle
\* under the player costs no life, plays no 'hit' sound and does not end the
\* game.
C4_ShieldAbsorbs ==
  [][(IsTick /\ Shielded /\ Overlap(engine')) =>
       /\ engine'.lives = engine.lives
       /\ SoundCount(engine', "hit") = 0
       /\ engine'.state = "playing"]_vars

\* a tick has found an obstacle under the player while the Shield was active
C4_Witness ==
  /\ lastOp.op = "frame"
  /\ lastOp.from = "playing"
  /\ ShieldActive(engine)
  /\ Now <= hist.shieldUntil
  /\ Overlap(engine)
  /\ engine.lives = InitialLives

\* ------------------------------------------------------------------------
\* C5
\* ------------------------------------------------------------------------

\* the tick's delta time
TickDelta == Min(clock' - engine.lastTime, DtCap)

\* C5: on a tick that finds the player invulnerable with more than the
\* tick's time left and no Shield active, an obstacle under the player
\* changes nothing: lives stay, no 'hit' is played, and the invulnerability
\* only runs down by the tick's delta time; and a life is lost after an
\* earlier loss only when GraceDuration of simulated time has passed.
C5_GraceIgnoresOverlap ==
  [][IsTick =>
       /\ (/\ engine.player.invulnerable
           /\ engine.player.invulnerableTime > TickDelta
           /\ ~ShieldActive(engine')
           /\ Overlap(engine')) =>
            /\ engine'.lives = engine.lives
            /\ SoundCount(engine', "hit") = 0
            /\ engine'.player.invulnerable
            /\ engine'.player.invulnerableTime
                 = engine.player.invulnerableTime - TickDelta
       /\ (engine'.lives < engine.lives /\ hist.sinceHit >= 0) =>
            hist.sinceHit + TickDelta >= GraceDuration]_vars

\* a tick within the grace period of the second hit has found an obstacle
\* under the player, no Shield active, and has left the last life
C5_Witness ==
  /\ lastOp.op = "frame"
  /\ lastOp.from = "playing"
  /\ engine.lives = 1
  /\ engine.player.invulnerable
  /\ engine.player.invulnerableTime < GraceDuration
  /\ hist.sinceHit > 0
  /\ hist.sinceHit < GraceDuration
  /\ ~ShieldActive(engine)
  /\ Overlap(engine)

\* ------------------------------------------------------------------------
\* C6
\* ------------------------------------------------------------------------

\* in the log of the handler that led to e, the gameOver state change comes
\* before the 'gameover' sound
GameOverThenSound(e) ==
  \E i, j \in 1..Len(e.events) :
    /\ i < j
    /\ e.events[i] = StateEvent("gameOver")
    /\ e.events[j] = SoundEvent("gameover")

\* C6: a tick that finds the player vulnerable, no Shield active and an
\* obstacle under the player takes exactly one life, plays 'hit' once and
\* makes the player invulnerable for GraceDuration; no frame takes more than
\* one life; the state becomes gameOver, followed by the 'gameover' sound,
\* exactly on the tick whose hit leaves no life.
C6_HitCostsOneLife ==
  [][IsFrame =>
       /\ engine'.lives \in {engine.lives, engine.lives - 1}
       /\ (/\ engine.state = "playing"
           /\ ~engine.player.invulnerable
           /\ ~ShieldActive(engine')
           /\ Overlap(engine')) => engine'.lives = engine.lives - 1
       /\ engine'.lives = engine.lives - 1 =>
            /\ SoundCount(engine', "hit") = 1
            /\ engine'.player.invulnerable
            /\ engine'.player.invulnerableTime = GraceDuration
       /\ engine'.lives = engine.lives => SoundCount(engine', "hit") = 0
       /\ (engine'.state = "gameOver" /\ engine.state # "gameOver")
            <=> (engine'.lives = engine.lives - 1 /\ engine'.lives = 0)
       /\ IF engine'.state = "gameOver" /\ engine.state # "gameOver"
          THEN SoundCount(engine', "gameover") = 1 /\ GameOverThenSound(engine')
          ELSE SoundCount(engine', "gameover") = 0]_vars

\* a tick that found two obstacles under a vulnerable player has taken one
\* life of the three
C6_Witness ==
  /\ lastOp.op = "frame"
  /\ lastOp.from = "playing"
  /\ hist.sinceHit = 0
  /\ Cardinality(Overlapping(engine)) >= 2
  /\ engine.lives = InitialLives - 1
  /\ SoundCount(engine, "hit") = 1

\* ------------------------------------------------------------------------
\* C7
\* ------------------------------------------------------------------------

\* the lane change the step asks for: -1, 1, or 0 when it asks for none
MoveAsked ==
  IF engine.state # "playing" THEN 0
  ELSE IF lastOp'.op = "keydown" /\ lastOp'.arg = "ArrowLeft" THEN -1
  ELSE IF lastOp'.op = "keydown" /\ lastOp'.arg = "ArrowRight" THEN 1
  ELSE IF lastOp'.op = "touchend" /\ lastOp'.arg = "left" THEN -1
  ELSE IF lastOp'.op = "touchend" /\ lastOp'.arg = "right" THEN 1
  ELSE 0

\* C7: targetLane and currentLane are always 0, 1 or 2, and a lane change
\* moves targetLane by one step clamped to that range.
C7_LanesClamped ==
  /\ [](engine.player.targetLane \in 0..2 /\ engine.player.currentLane \in 0..2)
  /\ [][MoveAsked # 0 =>
          engine'.player.targetLane
            = clamp(engine.player.targetLane + MoveAsked, 0, 2)]_vars

\* a move to the left was asked for with targetLane already 0
C7_Witness ==
  /\ lastOp.op \in {"keydown", "touchend"}
  /\ lastOp.arg \in {"ArrowLeft", "left"}
  /\ lastOp.from = "playing"
  /\ lastOp.lane = 0
  /\ engine.player.targetLane = 0

\* ------------------------------------------------------------------------
\* C8
\* ------------------------------------------------------------------------

\* C8: the player is never jumping and sliding at once.
C8_JumpSlideExclusive == ~(engine.player.isJumping /\ engine.player.isSliding)

\* a slide was asked for while the player was jumping
C8_Witness ==
  /\ lastOp.op \in {"keydown", "touchend"}
  /\ lastOp.arg \in {"ArrowDown", "down"}
  /\ lastOp.from = "playing"
  /\ engine.player.isJumping
  /\ ~engine.player.isSliding

\* ------------------------------------------------------------------------
\* C9
\* ------------------------------------------------------------------------

\* C9: a jump or slide asked for in playing while the player is already
\* jumping or sliding changes no field of the player and plays no sound.
C9_BusyIntentSilent ==
  [][(/\ IsJumpOrSlide
      /\ engine.state = "playing"
      /\ (engine.player.isJumping \/ engine.player.isSliding)) =>
       /\ engine'.player = engine.player
       /\ ~Emits(engine', "sound")]_vars

\* ------------------------------------------------------------------------
\* C10
\* ------------------------------------------------------------------------

CoinCollected(e) == \E i \in 1..Len(e.coins) : e.coins[i].collected

SpeedFor(score) == 300 + (score \div 500000) * 50

\* C12: when a tick returns, gameSpeed is 300 + floor(score / 500) * 50 for
\* the score the tick leaves; the tick whose survival bonus brings the score
\* to 500 leaves gameSpeed at 350.
C12_SpeedFollowsScore ==
  [][IsTick => engine'.gameSpeed = SpeedFor(engine'.score)]_vars

\* ------------------------------------------------------------------------
\* C13
\* ------------------------------------------------------------------------

\* max(800, 2000 - floor(score / 200) * 100), for a score in 1/1000 point
IntervalFor(score) ==
  IF 2000 - (score \div 200000) * 100 < 800 THEN 800
  ELSE 2000 - (score \div 200000) * 100

\* the score a tick holds when it computes the interval: the score it
\* leaves, less its survival bonus
ScoreAtInterval == engine'.score - 10 * TickDelta

PickedUp ==
  {engine'.powerUps[i] : i \in {j \in 1..Len(engine'.powerUps) :
     /\ engine'.powerUps[j].collected
     /\ engine'.powerUps[j].id \notin Collected(engine.powerUps)}}

\* the duration of each kind, in ms
DurationOf(kind) ==
  CASE kind = "magnet" -> 8000 [] kind = "speed" -> 6000 [] kind = "shield" -> 10000

\* C14: a tick that picks up a power-up leaves the expiry of its kind at the
\* tick's Date.now() plus the kind's duration (8000, 6000, 10000 ms), also
\* when the kind was already active, and then the expiry is not earlier than
\* it was; the kinds not picked up keep their expiry or are purged; there is
\* at most one expiry per kind.
C14_ReactivationReplaces ==
  /\ [](DOMAIN engine.activePowerUps \subseteq PowerUpTypes)
  /\ [][IsTick =>
          /\ \A u \in PickedUp :
               /\ u.type \in DOMAIN engine'.activePowerUps
               /\ engine'.activePowerUps[u.type] = Now' + DurationOf(u.type)
               /\ u.type \in DOMAIN engine.activePowerUps =>
                    engine'.activePowerUps[u.type] >= engine.activePowerUps[u.type]
          /\ \A k \in DOMAIN engine'.activePowerUps :
               \/ \E u \in PickedUp : u.type = k
               \/ /\ k \in DOMAIN engine.activePowerUps
                  /\ engine'.activePowerUps[k] = engine.activePowerUps[k]]_vars

\* a tick has picked up a power-up of a kind that was still active
C14_Witness ==
  /\ lastOp.op = "frame"
  /\ lastOp.from = "playing"
  /\ \E i \in 1..Len(engine.powerUps) :
       LET u == engine.powerUps[i]
       IN /\ u.collected
          /\ u.type \in DOMAIN hist.effectsBefore
          /\ hist.effectsBefore[u.type] > Now
          /\ engine.activePowerUps[u.type] = Now + DurationOf(u.type)

\* ------------------------------------------------------------------------
\* C15
\* ------------------------------------------------------------------------

\* the invulnerability the tick's countdown leaves of what the tick found
Remaining ==
  IF engine.player.invulnerable /\ engine.player.invulnerableTime > TickDelta
  THEN engine.player.invulnerableTime - TickDelta
  ELSE 0

\* C15: within a session the remaining invulnerability only goes down by the
\* per-tick countdown: a tick leaves at least what its countdown leaves; a
\* Shield picked up sets it to 10000 ms, which is not less; a life is lost
\* only when nothing remained, so the 2000 ms of a hit never replace a longer
\* time; and no input changes it, unless it resets the session.
C15_InvulnerabilityNeverCut ==
  [][/\ IsTick =>
          /\ Remaining > 0 =>
               /\ engine'.player.invulnerable
               /\ engine'.player.invulnerableTime >= Remaining
          /\ (\E u \in PickedUp : u.type = "shield") =>
               /\ engine'.player.invulnerable
               /\ engine'.player.invulnerableTime = 10000
               /\ engine'.player.invulnerableTime >= Remaining
          /\ engine'.lives < engine.lives =>
               /\ Remaining = 0
               /\ engine'.player.invulnerableTime = 2000
          /\ ((\A u \in PickedUp : u.type # "shield") /\ engine'.lives = engine.lives
              /\ Remaining > 0) =>
               engine'.player.invulnerableTime = Remaining
     /\ ~IsTick =>
          \/ /\ engine'.player.invulnerable = engine.player.invulnerable
             /\ engine'.player.invulnerableTime = engine.player.invulnerableTime
          \/ WasReset(engine')]_vars

\* a Shield has been picked up within the grace period of a hit
C15_Witness ==
  /\ lastOp.op = "frame"
  /\ lastOp.from = "playing"
  /\ engine.lives = InitialLives - 1
  /\ hist.sinceHit > 0
  /\ hist.sinceHit < GraceDuration
  /\ \E i \in 1..Len(engine.powerUps) :
       engine.powerUps[i].collected /\ engine.powerUps[i].type = "shield"
  /\ engine.player.invulnerable
  /\ engine.player.invulnerableTime = 10000

\* ------------------------------------------------------------------------
\* C16
\* ------------------------------------------------------------------------

\* C16: no coin and no power-up in the lists has its collected flag set, in
\* any state a tick leaves and so in any state at all.
C16_CollectedRemovedSameTick ==
  /\ \A i \in 1..Len(engine.coins) : ~engine.coins[i].collected
  /\ \A i \in 1..Len(engine.powerUps) : ~engine.powerUps[i].collected

\* ------------------------------------------------------------------------
\* C17
\* ------------------------------------------------------------------------

\* the coins and power-ups the tick that ends in the primed state has
\* flagged and that no earlier tick of the session had flagged
NewCoins == Collected(engine'.coins) \ hist.paidCoins
NewPowerUps == Collected(engine'.powerUps) \ hist.paidPowerUps

\* C17: a tick pays 10 points and one coin sound for each coin it flags that
\* no earlier tick had flagged, and nothing for any other coin; it activates
\* one effect, with one power-up sound, for each power-up it flags that no
\* earlier tick had flagged; a coin or power-up flagged earlier is not in
\* the list the tick leaves.
C17_ResolvedOnce ==
  [][IsTick =>
       /\ engine'.score =
            engine.score + 10 * TickDelta + Cardinality(NewCoins) * 10000
       /\ SoundCount(engine', "coin") = Cardinality(NewCoins)
       /\ SoundCount(engine', "powerup") = Cardinality(NewPowerUps)
       /\ \A i \in 1..Len(engine'.coins) :
            engine'.coins[i].id \notin hist.paidCoins
       /\ \A i \in 1..Len(engine'.powerUps) :
            engine'.powerUps[i].id \notin hist.paidPowerUps]_vars

\* a coin and a power-up have been collected by earlier ticks, and the tick
\* that ran last has flagged nothing, paid no coin and activated nothing
C17_Witness ==
  /\ lastOp.op = "frame"
  /\ lastOp.from = "playing"
  /\ hist.paidCoins # {}
  /\ hist.paidPowerUps # {}
  /\ Collected(engine.coins) = {}
  /\ Collected(engine.powerUps) = {}
  /\ SoundCount(engine, "coin") = 0
  /\ SoundCount(engine, "powerup") = 0

\* ------------------------------------------------------------------------
\* C18
\* ------------------------------------------------------------------------

\* no hit sound comes before a coin or power-up sound in the log
PickupsBeforeHit(events) ==
  \A i, j \in 1..Len(events) :
    (events[i] = SoundEvent("hit") /\ events[j] \in {SoundEvent("coin"), SoundEvent("powerup")})
      => j < i

\* C18: a tick resolves its pickups before its obstacle overlap: a tick that
\* picks up a Shield loses no life and makes no hit sound, whether or not an
\* obstacle overlaps the player, and leaves the Shield active; and in any
\* tick the coin and power-up sounds come before the hit sound.
C18_PickupsBeforeHazards ==
  [][IsTick =>
       /\ PickupsBeforeHit(engine'.events)
       /\ (\E u \in PickedUp : u.type = "shield") =>
            /\ engine'.lives = engine.lives
            /\ SoundCount(engine', "hit") = 0
            /\ engine'.state = "playing"
            /\ ShieldActive(engine')
            /\ engine'.player.invulnerable]_vars

\* a tick whose countdown left the player without invulnerability has picked
\* up a Shield while an obstacle overlapped the player, and no life was lost
C18_Witness ==
  /\ lastOp.op = "frame"
  /\ lastOp.from = "playing"
  /\ hist.exposed
  /\ ShieldPicked(engine)
  /\ Overlap(engine)
  /\ SoundCount(engine, "hit") = 0
  /\ SoundCount(engine, "powerup") = 1
  /\ engine.state = "playing"

\* ------------------------------------------------------------------------
\* C19
\* ------------------------------------------------------------------------

\* the effect of a kind is active for the tick that ends in the primed state:
\* the tick finds an entry and its Date.now() is before the entry's expiry
IsActive(kind) ==
  /\ kind \in DOMAIN engine.activePowerUps
  /\ Now' < engine.activePowerUps[kind]

\* coin c, as the tick found it, is within the magnet's range of the place
\* the tick's player update moves the player to
InRange(c) ==
  LET p == PlayerUpdate(engine.player, TickDelta)
  IN ~c.collected /\ Within(c.x, c.y, p.x, p.y, MagnetRange)

\* the tick has moved coin c to d by something other than the scroll
Pulled(c, d) ==
  d.x # c.x \/ d.y # c.y + engine.gameSpeed * TickDelta

\* C19: a tick pulls a coin towards the player only if the magnet is active,
\* that is its entry exists and the tick's Date.now() is before its expiry,
\* and it pulls every coin in range when the magnet is active; a tick in
\* which an obstacle overlaps a player without invulnerability costs a life
\* unless the shield is active in the same sense.
C19_ActiveIffBeforeExpiry ==
  [][IsTick =>
       /\ \A i \in 1..Len(engine.coins) : \A j \in 1..Len(engine'.coins) :
            engine.coins[i].id = engine'.coins[j].id =>
              /\ Pulled(engine.coins[i], engine'.coins[j]) => IsActive("magnet")
              /\ (IsActive("magnet") /\ InRange(engine.coins[i])) =>
                   Pulled(engine.coins[i], engine'.coins[j])
       /\ (Remaining = 0 /\ Overlap(engine') /\ ~IsActive("shield")
           /\ \A u \in PickedUp : u.type # "shield") =>
            engine'.lives = engine.lives - 1]_vars

\* ------------------------------------------------------------------------
\* C20
\* ------------------------------------------------------------------------

\* the last state onStateChange was called with in the log, "" if none
LastReported(events) ==
  LET idx == {i \in 1..Len(events) : events[i].kind = "state"}
  IN IF idx = {} THEN ""
     ELSE events[CHOOSE i \in idx : \A j \in idx : j <= i].name

\* C20: the gameState the component holds, which is the state last reported
\* to it, is the state of the engine that drives the game, the menu state of
\* a new engine counting as reported; and a handler that changes the
\* engine's state calls onStateChange with the new state last.
C20_ReportedState ==
  /\ [](page.gameState = engine.state)
  /\ [][(engine'.state # engine.state /\ lastOp'.op # "mount") =>
          LastReported(engine'.events) = engine'.state]_vars

\* ------------------------------------------------------------------------
\* C21
\* ------------------------------------------------------------------------

\* C21: what the component does after its onScoreChange callback has run,
\* also when the callback recorded a new high score, leaves the game with
\* the engine's lifecycle state, score, lives, player and entities as the
\* tick that made the call left them.
C21_NotificationInert ==
  [][lastOp'.op = "mount" =>
       /\ engine'.state = engine.state
       /\ Session(engine') = Session(engine)]_vars

\* ------------------------------------------------------------------------
\* C22
\* ------------------------------------------------------------------------

\* the step is a Confirm: the Start, Restart or Play Again button, a click
\* or touch on the canvas, Enter or Space, or a call of startGame
IsConfirmInput ==
  \/ lastOp'.op \in {"handleStart", "handleRestart", "startGame", "click", "touchend"}
  \/ lastOp'.op = "keydown" /\ lastOp'.arg \in {"Enter", "Space"}

\* a reset session
Fresh(e) ==
  /\ e.score = 0
  /\ e.lives = 3
  /\ e.obstacles = <<>>
  /\ e.coins = <<>>
  /\ e.powerUps = <<>>
  /\ e.particles = <<>>
  /\ DOMAIN e.activePowerUps = {}
  /\ e.player.currentLane = 1
  /\ e.player.targetLane = 1
  /\ e.player.x = LaneX(1)
  /\ e.player.y = groundY
  /\ ~e.player.isJumping
  /\ ~e.player.isSliding
  /\ ~e.player.invulnerable

\* C22: a Confirm that finds the engine in menu or gameOver leaves it in
\* playing with a reset session and has reported the score 0, whichever
\* button, key or touch delivered it.
C22_ConfirmStartsSession ==
  [][(IsConfirmInput /\ engine.state \in {"menu", "gameOver"}) =>
       /\ engine'.state = "playing"
       /\ Fresh(engine')
       /\ Emits(engine', "score")
       /\ \A i \in 1..Len(engine'.events) :
            engine'.events[i].kind = "score" => engine'.events[i].value = 0]_vars

\* ------------------------------------------------------------------------
\* C24
\* ------------------------------------------------------------------------

\* the hit-box the player would have standing where it is
StandingHitbox(p) == PlayerHitbox([p EXCEPT !.isSliding = FALSE])

\* C24: while the player slides, its hit-box is 36 px high, 60% of the
\* standing 60 px, its top edge is below the standing top edge and its
\* bottom edge is at the player's feet, so that the box lies within the
\* standing box.
C24_SlidingHitbox ==
  engine.player.isSliding =>
    LET box == PlayerHitbox(engine.player)
        standing == StandingHitbox(engine.player)
    IN /\ box.height = 36000
       /\ 10 * box.height = 6 * standing.height
       /\ box.y > standing.y
       /\ box.y + box.height = engine.player.y
       /\ box.x = standing.x
       /\ box.width = standing.width
       /\ box.y + box.height <= standing.y + standing.height

\* ------------------------------------------------------------------------
\* C23
\* ------------------------------------------------------------------------

\* C23: when a low obstacle in the player's lane has passed the player's
\* vertical extent and the player, vulnerable and without a Shield, was
\* sliding in every tick of the passage, no tick of the passage has cost a
\* life.
C23_SlidePassesUnder ==
  [][(IsTick /\ hist.passage = "slid" /\ hist'.passage = "none") =>
       ~hist.passageHit]_vars

\* ------------------------------------------------------------------------
\* C25
\* ------------------------------------------------------------------------

\* the obstacle the tick made the j-th of the list it leaves, as the tick
\* found or spawned it: the tick appends at most one and drops from the front
ObstacleBefore(j) ==
  LET n == IF ObstacleGate(engine, Now') THEN 1 ELSE 0
      k == Len(engine.obstacles) + n - Len(engine'.obstacles)
  IN IF j + k <= Len(engine.obstacles) THEN engine.obstacles[j + k]
     ELSE [engine'.obstacles[j] EXCEPT !.y = -(SpawnY * 1000)]

\* the most the scroll moves anything in one tick, in 1/1000 px
ScrollCap == engine.gameSpeed * DtCap

\* C25 as stated: in a tick no obstacle, coin or power-up moves by more than
\* gameSpeed times the cap of 16 ms, along either axis.
C25_NothingOutrunsScroll ==
  [][IsTick =>
       /\ \A j \in 1..Len(engine'.obstacles) :
            Abs(engine'.obstacles[j].y - ObstacleBefore(j).y) <= ScrollCap
       /\ \A i \in 1..Len(engine.powerUps) : \A j \in 1..Len(engine'.powerUps) :
            engine.powerUps[i].id = engine'.powerUps[j].id =>
              Abs(engine'.powerUps[j].y - engine.powerUps[i].y) <= ScrollCap
       /\ \A i \in 1..Len(engine.coins) : \A j \in 1..Len(engine'.coins) :
            engine.coins[i].id = engine'.coins[j].id =>
              /\ Abs(engine'.coins[j].y - engine.coins[i].y) <= ScrollCap
              /\ Abs(engine'.coins[j].x - engine.coins[i].x) <= ScrollCap]_vars

\* C25, amended: the delta time of a tick is min(elapsed frame time, 16 ms):
\* the tick moves every obstacle, every power-up and every coin the magnet
\* does not pull by exactly gameSpeed times that delta down the screen,
\* which is at most gameSpeed times 16 ms, however late the frame; a coin
\* the magnet pulls moves by that scroll and, before it, by dt * 5 of its
\* distance to the player along each axis.
C25_CappedDelta ==
  [][IsTick =>
       /\ TickDelta <= DtCap
       /\ TickDelta = DtCap \/ TickDelta = clock' - engine.lastTime
       /\ \A j \in 1..Len(engine'.obstacles) :
            /\ engine'.obstacles[j].y =
                  ObstacleBefore(j).y + engine.gameSpeed * TickDelta
            /\ engine'.obstacles[j].y - ObstacleBefore(j).y <= ScrollCap
       /\ \A i \in 1..Len(engine.powerUps) : \A j \in 1..Len(engine'.powerUps) :
            engine.powerUps[i].id = engine'.powerUps[j].id =>
              /\ engine'.powerUps[j].y =
                    engine.powerUps[i].y + engine.gameSpeed * TickDelta
              /\ engine'.powerUps[j].x = engine.powerUps[i].x
       /\ \A i \in 1..Len(engine.coins) : \A j \in 1..Len(engine'.coins) :
            engine.coins[i].id = engine'.coins[j].id =>
              LET c == engine.coins[i]
                  d == engine'.coins[j]
                  p == engine'.player
              IN IF MapHas(engine.activePowerUps, "magnet") /\ InRange(c)
                 THEN /\ d.x = lerp(c.x, p.x, TickDelta * MagnetRate)
                      /\ d.y = lerp(c.y, p.y, TickDelta * MagnetRate)
                                + engine.gameSpeed * TickDelta
                 ELSE /\ d.x = c.x
                      /\ d.y = c.y + engine.gameSpeed * TickDelta]_vars

\* a frame has come later than the cap while a magnet entry was in the map:
\* the entry was past its expiry when the tick began, and the tick has left
\* obstacles, coins and a power-up on the screen
C25_Witness ==
  /\ lastOp.op = "frame"
  /\ lastOp.from = "playing"
  /\ used.stalls = 1
  /\ "magnet" \in DOMAIN hist.effectsBefore
  /\ hist.effectsBefore["magnet"] < Now
  /\ Len(engine.obstacles) > 1
  /\ Len(engine.coins) > 1
  /\ engine.powerUps # <<>>

\* ------------------------------------------------------------------------
\* C26
\* ------------------------------------------------------------------------

\* C26: the timers run on one clock, so a Shield's entry in activePowerUps
\* and the invulnerability the Shield granted end in the same tick: in a
\* session in which a Shield has been picked up and no life has been lost,
\* the entry is there exactly as long as the player is invulnerable.
C26_ShieldTimersAgree ==
  (hist.shieldUntil > 0 /\ hist.sinceHit < 0) =>
    (ShieldActive(engine) <=> engine.player.invulnerable)

\* ------------------------------------------------------------------------
\* C27
\* ------------------------------------------------------------------------

LifecycleStates == {"menu", "playing", "paused", "gameOver"}

\* C27: for a canvas of zero width or zero height the constructor fails: no
\* engine exists for it in menu or in any other lifecycle state, and no
\* frame runs.
C27_MisconfigurationFails ==
  (canvas.width = 0 \/ canvas.height = 0) =>
    /\ engine.state \notin LifecycleStates
    /\ used.frames = 0

\* ------------------------------------------------------------------------
\* C28
\* ------------------------------------------------------------------------

\* the gate fired in the tick that ends in the primed state
FiredObstacle == engine'.lastObstacleSpawn = Now'
FiredCoin == engine'.lastCoinSpawn = Now'
FiredPowerUp == engine'.lastPowerUpSpawn = Now'

\* C28 as stated: a gate that fires has not fired, in this session or an
\* earlier one, within its interval: 15000 ms for power-ups, 1500 ms for
\* coins, the obstacle interval the tick finds for obstacles.
C28_GatesSpaced ==
  [][IsTick =>
       /\ (FiredObstacle /\ hist.fired.obstacle # 0) =>
            Now' - hist.fired.obstacle > engine.obstacleSpawnInterval
       /\ (FiredCoin /\ hist.fired.coin # 0) =>
            Now' - hist.fired.coin > 1500
       /\ (FiredPowerUp /\ hist.fired.powerUp # 0) =>
            Now' - hist.fired.powerUp > 15000]_vars

\* C28, amended: within a session a gate fires exactly in the ticks that
\* find more than its interval elapsed on Date.now() since its stamp, which
\* is the time of its last firing in the session, over any ticks and pauses
\* between; resetGame sets the stamps to 0, so the first tick of a session
\* fires every gate, however recently it fired in the session before.
C28_GatesSpacedInSession ==
  [][IsTick =>
       /\ FiredObstacle <=>
            Now' - engine.lastObstacleSpawn > engine.obstacleSpawnInterval
       /\ FiredCoin <=> Now' - engine.lastCoinSpawn > 1500
       /\ FiredPowerUp <=> Now' - engine.lastPowerUpSpawn > 15000
       /\ engine.lastObstacleSpawn \in {0, hist.fired.obstacle}
       /\ engine.lastCoinSpawn \in {0, hist.fired.coin}
       /\ engine.lastPowerUpSpawn \in {0, hist.fired.powerUp}
       /\ ~FiredObstacle => engine'.lastObstacleSpawn = engine.lastObstacleSpawn
       /\ ~FiredCoin => engine'.lastCoinSpawn = engine.lastCoinSpawn
       /\ ~FiredPowerUp => engine'.lastPowerUpSpawn = engine.lastPowerUpSpawn]_vars

\* a gate that had fired before in the session has fired again
C28_Witness ==
  /\ lastOp.op = "frame"
  /\ lastOp.from = "playing"
  /\ hist.refired
  /\ engine.lastCoinSpawn = Now
  /\ engine.lastPowerUpSpawn # Now
  /\ engine.lastPowerUpSpawn # 0

\* ------------------------------------------------------------------------
\* C29
\* ------------------------------------------------------------------------

\* no gate has fired since the session was reset
StampsZero(e) ==
  e.lastObstacleSpawn = 0 /\ e.lastCoinSpawn = 0 /\ e.lastPowerUpSpawn = 0

\* C29: a handler that resets the session leaves the three spawn stamps at
\* 0, and the first tick after it fires all three gates: it leaves exactly
\* one obstacle, one cluster of one to three coins and one power-up, and the
\* three stamps at its Date.now().
C29_FirstTickSpawnsAll ==
  /\ []((WasReset(engine) /\ lastOp.op # "frame") => StampsZero(engine))
  /\ [][(IsTick /\ StampsZero(engine)) =>
          /\ FiredObstacle /\ FiredCoin /\ FiredPowerUp
          /\ Len(engine'.obstacles) = 1
          /\ Len(engine'.powerUps) = 1
          /\ Len(engine'.coins) \in 1..3
          /\ engine'.spawned = engine.spawned + Len(engine'.coins) + 2
          /\ \A i \in 1..Len(engine'.coins) :
               engine'.coins[i].y =
                 -(SpawnY * 1000) - (i - 1) * CoinGapY * 1000
                 + engine.gameSpeed * TickDelta]_vars

\* the first tick of a session that is not the first has fired all three
\* gates: there is one obstacle and one power-up, and coins and power-ups
\* were spawned before those now in the lists
C29_Witness ==
  /\ lastOp.op = "frame"
  /\ lastOp.from = "playing"
  /\ engine.lastObstacleSpawn = Now
  /\ engine.lastCoinSpawn = Now
  /\ engine.lastPowerUpSpawn = Now
  /\ Len(engine.obstacles) = 1
  /\ Len(engine.powerUps) = 1
  /\ engine.coins # <<>>
  /\ engine.spawned > Len(engine.coins) + 2
  /\ engine.score = 10 * DtCap

\* ------------------------------------------------------------------------
\* C30
\* ------------------------------------------------------------------------

\* the obstacles, coins and power-ups the tick that ends in the primed state
\* has spawned
SpawnedNow(list) == {list[i] : i \in {j \in 1..Len(list) : list[j].id > engine.spawned}}

\* C30: every obstacle in the list has y < canvas height + 100 and every
\* coin and power-up y < canvas height + 50; an obstacle, coin or power-up
\* that has been removed from its list is never in it again; and what a
\* tick spawns is above the screen, at y < 0, when the tick returns.
C30_SpawnHighCullOnce ==
  /\ [](/\ \A i \in 1..Len(engine.obstacles) :
             engine.obstacles[i].y < (canvas.height + 100) * 1000
        /\ \A i \in 1..Len(engine.coins) :
             engine.coins[i].y < (canvas.height + 50) * 1000
        /\ \A i \in 1..Len(engine.powerUps) :
             engine.powerUps[i].y < (canvas.height + 50) * 1000
        /\ Listed(engine) \cap hist.gone = {})
  /\ [][IsTick =>
          \A n \in SpawnedNow(engine'.obstacles) \cup SpawnedNow(engine'.coins)
                   \cup SpawnedNow(engine'.powerUps) :
            /\ n.y < 0
            /\ n.id \notin Listed(engine) \cup hist.gone]_vars

\* an obstacle, a coin and a power-up have scrolled off the screen and been
\* removed, none of them collected, and the game has gone on to spawn more
C30_Witness ==
  /\ lastOp.op = "frame"
  /\ lastOp.from = "playing"
  /\ Cardinality(hist.gone \ (hist.paidCoins \cup hist.paidPowerUps)) >= 3
  /\ engine.obstacles # <<>>
  /\ engine.coins # <<>>
  /\ hist.sinceHit < 0

\* ------------------------------------------------------------------------
\* C31
\* ------------------------------------------------------------------------

\* C31: the player is never below the ground and is on it whenever it is
\* not jumping; a slide has between 0 and 800 ms left, every playing tick
\* takes its delta time off and the slide is over when nothing is left; a
\* jump leads to the player on the ground with no vertical velocity and not
\* jumping, and a slide leads to the player not sliding.
C31_JumpAndSlideEnd ==
  /\ [](/\ engine.player.y <= groundY
        /\ ~engine.player.isJumping => engine.player.y = groundY
        /\ engine.player.isSliding =>
             engine.player.slideTime > 0 /\ engine.player.slideTime <= SlideDuration)
  /\ [][IsTick /\ engine.player.isSliding =>
          /\ engine'.player.slideTime = engine.player.slideTime - TickDelta
          /\ engine'.player.isSliding = (engine'.player.slideTime > 0)]_vars
  /\ (engine.player.isJumping ~>
        (/\ ~engine.player.isJumping
         /\ engine.player.y = groundY
         /\ engine.player.vy = 0))
  /\ (engine.player.isSliding ~> ~engine.player.isSliding)

\* a tick has just landed the player from a jump
C31_Witness ==
  /\ lastOp.op = "frame"
  /\ hist.landed
  /\ used.keys >= 1
  /\ engine.state = "playing"
  /\ engine.player.y = groundY
  /\ engine.player.vy = 0
  /\ ~engine.player.isJumping
  /\ ~engine.player.isSliding

\* ------------------------------------------------------------------------
\* C32
\* ------------------------------------------------------------------------

\* C32: lives is always in 0..3, at least 1 while the game is playing or
\* paused and 0 while it is over; and lives changes only by the loss of one
\* life in a playing tick or by a reset to 3.
C32_LivesAccount ==
  /\ [](/\ engine.lives \in 0..InitialLives
        /\ engine.state \in {"playing", "paused"} => engine.lives >= 1
        /\ engine.state = "gameOver" => engine.lives = 0)
  /\ [][\/ engine'.lives = engine.lives
        \/ IsTick /\ engine'.lives = engine.lives - 1
        \/ WasReset(engine') /\ engine'.lives = InitialLives]_vars

\* ------------------------------------------------------------------------
\* C33
\* ------------------------------------------------------------------------

\* the log has a score report after its report of the state gameOver
ScoreAfterGameOver(events) ==
  \E i \in 1..Len(events) : \E j \in (i + 1)..Len(events) :
    events[i] = StateEvent("gameOver") /\ events[j].kind = "score"

\* C33: the tick that ends the game leaves the score at what it was plus
\* the coins the tick collected, and reports no score after it has reported
\* gameOver; and while the game is over, a step that is not a Confirm leaves
\* the score as it is and reports no score other than that one.
C33_ScoreFrozen ==
  [][/\ (IsTick /\ engine'.state = "gameOver") =>
          /\ engine'.score =
               engine.score + CoinScore * 1000 * Cardinality(Collected(engine'.coins))
          /\ ~ScoreAfterGameOver(engine'.events)
     /\ (engine.state = "gameOver" /\ ~IsConfirmInput) =>
          /\ engine'.score = engine.score
          /\ \A i \in 1..Len(engine'.events) :
               engine'.events[i].kind = "score" =>
                 engine'.events[i].value = engine.score \div 1000]_vars

\* ------------------------------------------------------------------------
\* C34
\* ------------------------------------------------------------------------

\* the step is a pass of the game loop: a frame callback or start()
IsLoop == lastOp'.op \in {"frame", "start"}

\* the delta time of the pass
LoopDelta ==
  Min((IF lastOp'.op = "start" THEN 0 ELSE clock') - engine.lastTime, DtCap)

\* C34: the delta time of a pass of the game loop is never negative, and a
\* pass that updates the game does not lower the score, move an obstacle
\* up the screen or lengthen a slide.
C34_DeltaNotNegative ==
  [][IsLoop =>
       /\ LoopDelta >= 0
       /\ engine.state = "playing" =>
            /\ engine'.score >= engine.score
            /\ \A i \in 1..Len(engine.obstacles) : \A j \in 1..Len(engine'.obstacles) :
                 engine'.obstacles[j].id = engine.obstacles[i].id =>
                   engine'.obstacles[j].y >= engine.obstacles[i].y
            /\ (engine.player.isSliding /\ engine'.player.isSliding) =>
                 engine'.player.slideTime <= engine.player.slideTime]_vars

\* ------------------------------------------------------------------------
\* C35
\* ------------------------------------------------------------------------

Reported(events) ==
  {events[i].value : i \in {j \in 1..Len(events) : events[j].kind = "score"}}

\* C36: every score a handler reports is the floor of the score the engine
\* holds, and the component's high score after a step is the greater of its
\* high score before the step and the scores the step reported, so that it
\* never decreases and is the maximum of its first value and every score
\* reported.
C36_FlooredScoreAndHighScore ==
  [][/\ \A v \in Reported(engine'.events) : v = engine'.score \div 1000
     /\ page'.highScore >= page.highScore
     /\ \A v \in Reported(engine'.events) \cup Reported(StaleEvents(page'.stale, 1)) :
          page'.highScore >= v
     /\ \/ page'.highScore = page.highScore
        \/ page'.highScore \in Reported(engine'.events)]_vars

\* a game has set a high score of at least 1, and a later Confirm on the
\* canvas or the keyboard has reported the score 0: the component shows
\* score 0 and keeps the high score
C36_Witness ==
  /\ lastOp.op \in {"keydown", "click", "touchend"}
  /\ lastOp.from = "menu"
  /\ engine.state = "playing"
  /\ page.score = 0
  /\ page.highScore >= 1
  /\ page.captured = page.highScore
  /\ page.saved = page.highScore
  /\ page.stale # <<>>

====
